---- MODULE Spec2Model ----
(***************************************************************************)
(* A model of src/main.py: parse_logs (the START/END RequestId block       *)
(* reconstructor run over every .gz source) and analyze (the derived       *)
(* metrics, the flow-continuity check, the z-score anomalies and the       *)
(* per-user summary).                                                      *)
(*                                                                         *)
(* Optional values (Python None, a missing dict key, NaN, NaT) are the     *)
(* empty sequence <<>>; a present value v is <<v>>.  Strings that the code *)
(* only compares or sorts (request ids, user ids, wallet ids) are small    *)
(* naturals standing for their lexicographic rank.  Money is an integer    *)
(* number of 1e-6 units, so that the code's tolerance 1e-6 is EPS == 1.    *)
(***************************************************************************)
EXTENDS Integers, Sequences, FiniteSets

\* ---------------------------------------------------------------- bounds
NumFiles == 2       \* number of .gz sources found by rglob
MaxLines == 4       \* lines read over the whole run
MaxRecs  == 2       \* records of RecDomain in a collection without routine history
HistLen  == 10      \* routine records that may open an analysed collection
MaxTail  == 1       \* records that may follow a full routine history

\* ------------------------------------------------------- optional values
None == <<>>
Some(v) == <<v>>
IsKnown(x) == x # <<>>
Val(x) == x[1]
Opt(S) == {None} \cup {Some(v) : v \in S}

Abs(x) == IF x < 0 THEN -x ELSE x

\* ============================================================ parse_logs
RIDs == {1, 2}

AmountTokens == {5, 7}

\* The stripped line s (line 60) as the regular expressions see it: ms is
\* start_re's group rid (None when start_re does not match), me is end_re's.
\* Both patterns contain ".*", so one line can match both.  amt is what the
\* 'amount' pattern of fields_patterns captures in the line (None when it
\* finds nothing); it stands for the eleven field patterns.  no is the
\* line's ordinal in its source: every physical line is its own occurrence,
\* and the leading timestamp token of a line is taken from it.
LineKinds ==
    {[ms |-> m, me |-> None, amt |-> None] : m \in Opt(RIDs)} \cup
    {[ms |-> None, me |-> Some(r), amt |-> None] : r \in RIDs} \cup
    {[ms |-> Some(2), me |-> Some(1), amt |-> None]} \cup
    {[ms |-> None, me |-> None, amt |-> Some(v)] : v \in AmountTokens}

MkLine(k, n) == [no |-> n, ms |-> k.ms, me |-> k.me, amt |-> k.amt]

\* line 67: the text up to the first 'Z', else the first 25 characters
StartTsOf(s) == Some(s.no)

VARIABLES
    records,       \* line 50: the list every source appends to
    gzi,           \* index into gz_files (line 52)
    pc,            \* "open" | "read" | "done"
    current_id,    \* line 55
    buffer_lines,  \* line 56
    start_ts,      \* line 57
    consumed,      \* history: the lines of the current source read so far
    failed,        \* history: the sources whose with-block raised
    outcome,       \* history: "none" | "reading" | "eof" | "raised", how the
                   \* with-block of the source last entered stands
    nread,         \* history: lines read over the whole run
    df,            \* analyze's argument
    out            \* analyze's result

vars == <<records, gzi, pc, current_id, buffer_lines, start_ts,
          consumed, failed, outcome, nread, df, out>>

\* Python truthiness of "current_id and buffer_lines" (lines 63, 77)
Truthy(cid, buf) == IsKnown(cid) /\ Len(buf) > 0

\* lines 88-90: pat.search(text) keeps the first match in the joined
\* buffer; no match leaves the key out of the record
FirstMatch(text) ==
    LET hits == {i \in 1..Len(text) : IsKnown(text[i].amt)} IN
    IF hits = {} THEN None
    ELSE text[CHOOSE i \in hits : \A j \in hits : i <= j].amt

\* lines 85-91: the record of one block.  text is the joined buffer the
\* patterns are searched in.
ExtractRecord(text, rid, gz, ts) ==
    [requestId |-> rid, file |-> gz, start_ts |-> ts, text |-> text,
     amount |-> FirstMatch(text)]

\* OnStart with line 66 appending to the old buffer instead of replacing it
OnStart_KeepsBuffer(s) ==
    /\ records' = IF Truthy(current_id, buffer_lines)
                  THEN Append(records,
                         ExtractRecord(buffer_lines, Val(current_id), gzi, start_ts))
                  ELSE records
    /\ current_id' = s.ms
    /\ buffer_lines' = Append(buffer_lines, s)
    /\ start_ts' = StartTsOf(s)

\* OnStart without the flush of lines 63-64
OnStart_NoFlush(s) ==
    /\ records' = records
    /\ current_id' = s.ms
    /\ buffer_lines' = <<s>>
    /\ start_ts' = StartTsOf(s)

\* lines 61-68: s matches start_re
OnStart(s) ==
    /\ records' = IF Truthy(current_id, buffer_lines)
                  THEN Append(records,
                         ExtractRecord(buffer_lines, Val(current_id), gzi, start_ts))
                  ELSE records
    /\ current_id' = s.ms
    /\ buffer_lines' = <<s>>
    /\ start_ts' = StartTsOf(s)

\* EndMatches without the comparison of the two identifiers
EndMatches_AnyId(s, cid) == IsKnown(s.me) /\ IsKnown(cid)

\* line 70: the test that closes a block
EndMatches(s, cid) == IsKnown(s.me) /\ IsKnown(cid) /\ s.me = cid

\* lines 69-74
OnEnd(s) ==
    /\ records' = Append(records,
                    ExtractRecord(Append(buffer_lines, s), Val(current_id), gzi, start_ts))
    /\ current_id' = None
    /\ buffer_lines' = <<>>
    /\ start_ts' = None

\* lines 75-76
OnOther(s) ==
    /\ buffer_lines' = IF IsKnown(current_id) THEN Append(buffer_lines, s)
                       ELSE buffer_lines
    /\ UNCHANGED <<records, current_id, start_ts>>

\* line 52 / line 80: on to the next source
NextSource ==
    /\ gzi' = gzi + 1
    /\ pc' = "open"

\* line 54 succeeds, lines 55-57
OpenSource ==
    /\ pc = "open" /\ gzi <= NumFiles
    /\ current_id' = None /\ buffer_lines' = <<>> /\ start_ts' = None
    /\ consumed' = <<>>
    /\ outcome' = "reading"
    /\ pc' = "read"
    /\ UNCHANGED <<records, gzi, failed, nread, df, out>>

\* line 54 raises (not a gzip file, unreadable): lines 79-80
OpenFails ==
    /\ pc = "open" /\ gzi <= NumFiles
    /\ failed' = failed \cup {gzi}
    /\ consumed' = <<>>
    /\ outcome' = "raised"
    /\ NextSource
    /\ UNCHANGED <<records, current_id, buffer_lines, start_ts, nread, df, out>>

\* lines 59-76: one iteration of "for raw in f"
ReadLine ==
    /\ pc = "read" /\ nread < MaxLines
    /\ \E k \in LineKinds :
         LET s == MkLine(k, Len(consumed) + 1) IN
         /\ consumed' = Append(consumed, s)
         /\ IF IsKnown(s.ms) THEN OnStart(s)
            ELSE IF EndMatches(s, current_id) THEN OnEnd(s)
            ELSE OnOther(s)
    /\ nread' = nread + 1
    /\ UNCHANGED <<gzi, pc, failed, outcome, df, out>>

\* the iterator raises while the source is being read (truncated or corrupt
\* gzip stream): lines 79-80
ReadFails ==
    /\ pc = "read"
    /\ failed' = failed \cup {gzi}
    /\ outcome' = "raised"
    /\ NextSource
    /\ UNCHANGED <<records, current_id, buffer_lines, start_ts, consumed, nread, df, out>>

\* EndOfSource without the final flush of lines 77-78
EndOfSource_NoFlush ==
    /\ pc = "read"
    /\ outcome' = "eof"
    /\ NextSource
    /\ UNCHANGED <<records, current_id, buffer_lines, start_ts, consumed,
                   failed, nread, df, out>>

\* the iterator is exhausted: lines 77-78
EndOfSource ==
    /\ pc = "read"
    /\ records' = IF Truthy(current_id, buffer_lines)
                  THEN Append(records,
                         ExtractRecord(buffer_lines, Val(current_id), gzi, start_ts))
                  ELSE records
    /\ outcome' = "eof"
    /\ NextSource
    /\ UNCHANGED <<current_id, buffer_lines, start_ts, consumed, failed, nread, df, out>>

\* line 82
Return ==
    /\ pc = "open" /\ gzi > NumFiles
    /\ pc' = "done"
    /\ UNCHANGED <<records, gzi, current_id, buffer_lines, start_ts,
                   consumed, failed, outcome, nread, df, out>>

\* =============================================================== analyze
EPS == 1            \* 1e-6 in units of 1e-6 (lines 116, 127)
MinSamples == 5     \* line 131
Sigmas == 3         \* line 134

\* A captured token ([0-9.-]+, or the start timestamp): ok says whether
\* float() / to_datetime accept it, v is the value they give.
Tok(n) == [ok |-> TRUE, v |-> n]
BadTok == [ok |-> FALSE, v |-> 0]

\* lines 99-101 and the NaN a missing dict key becomes in the DataFrame
to_float(x) == IF IsKnown(x) /\ Val(x).ok THEN Some(Val(x).v) ELSE None

\* line 97: errors='coerce' turns what does not parse into NaT
to_datetime(x) == IF IsKnown(x) /\ Val(x).ok THEN Some(Val(x).v) ELSE None

\* pd.DataFrame(records): a column exists when some record has the key
OptionalColumns == {"oldBalance", "newBalance", "amount", "userId", "walletId"}
HasColumn(D, c) == \E i \in 1..Len(D) : IsKnown(D[i][c])

\* the columns analyze indexes with df[...] without testing for them:
\* newBalance and oldBalance (line 107), amount (line 115), userId and
\* walletId (line 122)
RaisesKeyError(D) == \E c \in OptionalColumns : ~HasColumn(D, c)

\* NaN-propagating arithmetic and NaN-false comparisons of float columns
Sub(a, b) == IF IsKnown(a) /\ IsKnown(b) THEN Some(Val(a) - Val(b)) ELSE None
Mul(a, b) == IF IsKnown(a) /\ IsKnown(b) THEN Some(Val(a) * Val(b)) ELSE None
AbsGtEps(x) == IsKnown(x) /\ Abs(Val(x)) > EPS
Lt0(x) == IsKnown(x) /\ Val(x) < 0

\* lines 109-112
best_sign(amt, dlt) ==
    IF ~IsKnown(amt) \/ ~IsKnown(dlt) THEN None
    ELSE IF Abs(Val(dlt) - Val(amt)) <= Abs(Val(dlt) + Val(amt)) THEN Some(1)
    ELSE Some(-1)

\* Mismatch with the unknown difference filled with a large value
Mismatch_NaNCounts(delta, expected) ==
    IF IsKnown(Sub(delta, expected)) THEN AbsGtEps(Sub(delta, expected)) ELSE TRUE

\* line 116
Mismatch(delta, expected) == AbsGtEps(Sub(delta, expected))

\* line 120
OverdraftCross(before, after) == (~before) /\ after

\* lines 97-120: the row-wise columns of row i (idx is the index label)
RowWise(D, i) ==
    LET old == to_float(D[i].oldBalance)
        new == to_float(D[i].newBalance)
        amt == to_float(D[i].amount)
        delta == Sub(new, old)
        sign == best_sign(amt, delta)
        expected == Mul(amt, sign)
    IN  [idx |-> i,
         requestId |-> D[i].requestId,
         ts |-> to_datetime(D[i].start_ts),
         oldBalance |-> old, newBalance |-> new, amount |-> amt,
         userId |-> D[i].userId, walletId |-> D[i].walletId,
         delta |-> delta, amount_sign |-> sign, expected_delta |-> expected,
         mismatch |-> Mismatch(delta, expected),
         overdraft_before |-> Lt0(old),
         overdraft_after |-> Lt0(new),
         overdraft_cross |-> OverdraftCross(Lt0(old), Lt0(new))]

\* one sort key, na_position='last': known values ascending, then the NaN
KeyLess(a, b) ==
    IF IsKnown(a) /\ IsKnown(b) THEN Val(a) < Val(b)
    ELSE IsKnown(a) /\ ~IsKnown(b)

\* line 122: the order of ['userId', 'walletId', 'ts', 'requestId']
RowLess(x, y) ==
    \/ KeyLess(x.userId, y.userId)
    \/ /\ x.userId = y.userId
       /\ \/ KeyLess(x.walletId, y.walletId)
          \/ /\ x.walletId = y.walletId
             /\ \/ KeyLess(x.ts, y.ts)
                \/ x.ts = y.ts /\ x.requestId < y.requestId

\* line 122: sort_values on several columns is a stable lexsort, so rows
\* with equal keys keep their order
sort_values(R) ==
    LET before(j, i) == RowLess(R[j], R[i]) \/ (~RowLess(R[i], R[j]) /\ j < i)
        rank(i) == 1 + Cardinality({j \in 1..Len(R) : before(j, i)})
    IN  [p \in 1..Len(R) |-> R[CHOOSE i \in 1..Len(R) : rank(i) = p]]

SameGroup(x, y) ==
    /\ IsKnown(x.userId) /\ IsKnown(x.walletId)
    /\ x.userId = y.userId /\ x.walletId = y.walletId

\* NextOld taking the previous row of the group (shift(1))
NextOld_ShiftsBack(S, p) ==
    LET Q == {q \in 1..Len(S) : q < p /\ SameGroup(S[p], S[q])} IN
    IF Q = {} THEN None
    ELSE S[CHOOSE q \in Q : \A q2 \in Q : q2 <= q].oldBalance

\* line 124: groupby(['userId','walletId'])['oldBalance'].shift(-1); a row
\* with a NaN key is in no group and gets NaN
NextOld(S, p) ==
    LET Q == {q \in 1..Len(S) : q > p /\ SameGroup(S[p], S[q])} IN
    IF Q = {} THEN None
    ELSE S[CHOOSE q \in Q : \A q2 \in Q : q <= q2].oldBalance

\* line 127
FlowBreak(new, next_old) ==
    IsKnown(new) /\ IsKnown(next_old) /\ AbsGtEps(Sub(new, next_old))

RECURSIVE SumOver(_, _)
SumOver(f, P) ==
    IF P = {} THEN 0
    ELSE LET q == CHOOSE x \in P : TRUE IN f[q] + SumOver(f, P \ {q})

\* lines 129-134, 137 and 142 for the row at p.  With n values of sum s and
\* sum of squares s2: mu = s/n, sd^2 = (n*s2 - s*s) / (n*(n-1)), so
\* |d - mu| > 3*sd  iff  (n*d - s)^2 * (n-1) > 9 * n * (n*s2 - s*s).
ZAnomaly(S, p) ==
    LET G == {q \in 1..Len(S) : S[q].userId = S[p].userId /\ IsKnown(S[q].delta)}
        n == Cardinality(G)
        d == [q \in 1..Len(S) |-> IF IsKnown(S[q].delta) THEN Val(S[q].delta) ELSE 0]
        dd == [q \in 1..Len(S) |-> d[q] * d[q]]
        s == SumOver(d, G)
        s2 == SumOver(dd, G)
        v == n * s2 - s * s
    IN  /\ IsKnown(S[p].userId)
        /\ n >= MinSamples
        /\ v # 0
        /\ IsKnown(S[p].delta)
        /\ (n * d[p] - s) * (n * d[p] - s) * (n - 1) > Sigmas * Sigmas * n * v

\* lines 122-142: the sorted table with the grouped columns
Enrich(D) ==
    LET S == sort_values([i \in 1..Len(D) |-> RowWise(D, i)]) IN
    [p \in 1..Len(S) |->
        [idx |-> S[p].idx, requestId |-> S[p].requestId, ts |-> S[p].ts,
         oldBalance |-> S[p].oldBalance, newBalance |-> S[p].newBalance,
         amount |-> S[p].amount, userId |-> S[p].userId, walletId |-> S[p].walletId,
         delta |-> S[p].delta, amount_sign |-> S[p].amount_sign,
         expected_delta |-> S[p].expected_delta, mismatch |-> S[p].mismatch,
         overdraft_before |-> S[p].overdraft_before,
         overdraft_after |-> S[p].overdraft_after,
         overdraft_cross |-> S[p].overdraft_cross,
         next_old |-> NextOld(S, p),
         flow_break |-> FlowBreak(S[p].newBalance, NextOld(S, p)),
         delta_anomaly |-> ZAnomaly(S, p)]]

MinOf(P) == IF P = {} THEN None ELSE Some(CHOOSE x \in P : \A y \in P : x <= y)
MaxOf(P) == IF P = {} THEN None ELSE Some(CHOOSE x \in P : \A y \in P : y <= x)

\* line 153: the last non-NaN newBalance of the group, in the table's order
LastBalance(E, G) ==
    LET K == {q \in G : IsKnown(E[q].newBalance)} IN
    IF K = {} THEN None ELSE E[Val(MaxOf(K))].newBalance

\* lines 145-157: one row per non-NaN userId
PerUser(E) ==
    LET users == {Val(E[q].userId) : q \in {q2 \in 1..Len(E) : IsKnown(E[q2].userId)}} IN
    [u \in users |->
        LET G == {q \in 1..Len(E) : E[q].userId = Some(u)}
            tss == {Val(E[q].ts) : q \in {q2 \in G : IsKnown(E[q2].ts)}}
            bal == {Val(E[q].newBalance) : q \in {q2 \in G : IsKnown(E[q2].newBalance)}}
        IN  [first_ts |-> MinOf(tss), last_ts |-> MaxOf(tss),
             events |-> Cardinality(G),
             overdraft_events |-> Cardinality({q \in G : E[q].overdraft_after}),
             overdraft_crossings |-> Cardinality({q \in G : E[q].overdraft_cross}),
             mismatches |-> Cardinality({q \in G : E[q].mismatch}),
             flow_breaks |-> Cardinality({q \in G : E[q].flow_break}),
             last_balance |-> LastBalance(E, G),
             min_balance |-> MinOf(bal), max_balance |-> MaxOf(bal),
             final_overdraft |-> Lt0(LastBalance(E, G))]]

\* lines 94-161
analyze(D) ==
    IF RaisesKeyError(D)
    THEN [err |-> "KeyError", df |-> <<>>, per_user |-> <<>>]
    ELSE LET E == Enrich(D) IN [err |-> "none", df |-> E, per_user |-> PerUser(E)]

\* ------------------------------------------- the collections analysed
\* <<userId, walletId>>, <<start_ts, requestId>>, <<oldBalance, newBalance,
\* amount>> as _extract_record leaves them: a missing key is None, a value is
\* the captured token
Keys == {<<Some(1), Some(1)>>, <<Some(1), Some(2)>>, <<Some(1), None>>,
         <<None, Some(1)>>, <<Some(2), Some(1)>>}
GroupKeys == {<<Some(1), Some(1)>>, <<Some(1), Some(2)>>}
Stamps == {<<Tok(1), 1>>, <<Tok(1), 2>>, <<Tok(2), 1>>, <<BadTok, 1>>}
Money == {<<Some(Tok(0)),  Some(Tok(-1)), Some(Tok(3))>>,
          <<Some(Tok(-2)), Some(Tok(0)),  Some(Tok(3))>>,
          <<None,          Some(Tok(-1)), Some(Tok(3))>>,
          <<Some(Tok(0)),  None,          Some(Tok(3))>>}
MoneyNoAmount == {<<Some(Tok(0)), Some(Tok(-1)), None>>,
                  <<Some(Tok(0)), Some(Tok(0)),  Some(BadTok)>>}

MkRecord(k, s, m) ==
    [requestId |-> s[2], start_ts |-> Some(s[1]),
     oldBalance |-> m[1], newBalance |-> m[2], amount |-> m[3],
     userId |-> k[1], walletId |-> k[2]]

\* records of two wallets of one user, in every order of time and
\* request id
FlowRecords == {MkRecord(k, s, m) : k \in GroupKeys, s \in Stamps, m \in Money}
\* records with every field present, absent or unparseable
FieldRecords ==
    {MkRecord(k, <<Tok(1), 1>>, m) : k \in Keys, m \in Money \cup MoneyNoAmount}
RecDomain == FlowRecords \cup FieldRecords

\* a user's routine event: balance 0 before and after, amount 0
Routine == MkRecord(<<Some(1), Some(1)>>, <<Tok(1), 1>>,
                    <<Some(Tok(0)), Some(Tok(0)), Some(Tok(0))>>)
\* an event of another user
Bystander == MkRecord(<<Some(2), Some(1)>>, <<Tok(1), 1>>,
                      <<Some(Tok(0)), Some(Tok(0)), Some(Tok(0))>>)

NumRoutine == Cardinality({i \in 1..Len(df) : df[i] = Routine})
NumBystander == Cardinality({i \in 1..Len(df) : df[i] = Bystander})
NumFree == Len(df) - NumRoutine - NumBystander

Pending == [err |-> "pending", df |-> <<>>, per_user |-> <<>>]

\* the collection parse_logs returns (line 82) is built a record at a time:
\* first, or not, a record of another user; then, or not, a routine history;
\* then records of RecDomain

AppendBystander ==
    /\ out = Pending
    /\ df = <<>>
    /\ df' = <<Bystander>>
    /\ UNCHANGED <<records, gzi, pc, current_id, buffer_lines, start_ts,
                   consumed, failed, outcome, nread, out>>

AppendRoutine ==
    /\ out = Pending
    /\ NumFree = 0 /\ NumRoutine < HistLen
    /\ df' = Append(df, Routine)
    /\ UNCHANGED <<records, gzi, pc, current_id, buffer_lines, start_ts,
                   consumed, failed, outcome, nread, out>>

AppendRecord ==
    /\ out = Pending
    /\ \/ NumRoutine = 0 /\ NumFree < MaxRecs
       \/ NumRoutine = HistLen /\ NumFree < MaxTail
    /\ \E r \in RecDomain : df' = Append(df, r)
    /\ UNCHANGED <<records, gzi, pc, current_id, buffer_lines, start_ts,
                   consumed, failed, outcome, nread, out>>

\* line 268
Analyze ==
    /\ out = Pending
    /\ out' = analyze(df)
    /\ UNCHANGED <<records, gzi, pc, current_id, buffer_lines, start_ts,
                   consumed, failed, outcome, nread, df>>

ParseInit ==
    /\ records = <<>>
    /\ gzi = 1
    /\ pc = "open"
    /\ current_id = None /\ buffer_lines = <<>> /\ start_ts = None
    /\ consumed = <<>> /\ failed = {} /\ outcome = "none" /\ nread = 0

Init ==
    /\ ParseInit
    /\ df = <<>> /\ out = Pending

Next ==
    \/ OpenSource
    \/ OpenFails
    \/ ReadLine
    \/ ReadFails
    \/ EndOfSource
    \/ Return

Spec == Init /\ [][Next]_vars

NextAnalyze ==
    \/ AppendBystander
    \/ AppendRoutine
    \/ AppendRecord
    \/ Analyze

SpecAnalyze == Init /\ [][NextAnalyze]_vars

\* ================================================ claims about parse_logs
IsStart(s) == IsKnown(s.ms)
KindOf(s) == [ms |-> s.ms, me |-> s.me, amt |-> s.amt]
KStart(r) == [ms |-> Some(r), me |-> None, amt |-> None]
KEnd(r) == [ms |-> None, me |-> Some(r), amt |-> None]
KOther(a) == [ms |-> None, me |-> None, amt |-> a]
KindsOf(L) == [i \in 1..Len(L) |-> KindOf(L[i])]
HasFile(r, f) == r.file = f
RecsOf(f) == SelectSeq(records, LAMBDA r : HasFile(r, f))
Last(q) == q[Len(q)]

\* a step of ReadLine, and the line it read
IsReadStep == nread' = nread + 1
LineRead == consumed'[Len(consumed')]
\* a step of EndOfSource
IsEofStep == outcome = "reading" /\ outcome' = "eof"
\* the position in consumed of the start marker of the open block
OpenStartPos ==
    CHOOSE a \in 1..Len(consumed) :
        /\ IsStart(consumed[a])
        /\ \A j \in a+1..Len(consumed) : ~IsStart(consumed[j])

\* C1 (as claimed): once parse_logs has returned, no record of the collection
\* comes from a source whose read raised.
C1_FailedSourceLeavesNoRecord ==
    pc = "done" => \A i \in 1..Len(records) : records[i].file \notin failed

\* C2, one step: a start marker read while a block is open emits exactly one
\* record for the open block, with the identifier and the timestamp of that
\* block's own start line and the lines read since it, the new line not
\* among them, and opens a block whose buffer is the new start line alone.
C2_StartStep ==
    (IsReadStep /\ IsStart(LineRead) /\ IsKnown(current_id)) =>
        /\ records' = Append(records,
                        [requestId |-> Val(consumed[OpenStartPos].ms),
                         file |-> gzi,
                         start_ts |-> StartTsOf(consumed[OpenStartPos]),
                         text |-> SubSeq(consumed, OpenStartPos, Len(consumed)),
                         amount |-> FirstMatch(SubSeq(consumed, OpenStartPos, Len(consumed)))])
        /\ current_id' = LineRead.ms
        /\ buffer_lines' = <<LineRead>>
        /\ start_ts' = StartTsOf(LineRead)

\* C2, the example: START R1, START R2, END R2 yields two records, R1 (the
\* start line alone) then R2.
C2_Example ==
    (pc = "read" /\ KindsOf(consumed) = <<KStart(1), KStart(2), KEnd(2)>>) =>
        LET R == RecsOf(gzi) IN
        /\ Len(R) = 2
        /\ R[1].requestId = 1 /\ R[1].text = <<consumed[1]>>
        /\ R[1].start_ts = StartTsOf(consumed[1])
        /\ R[2].requestId = 2 /\ R[2].text = <<consumed[2], consumed[3]>>
        /\ R[2].start_ts = StartTsOf(consumed[2])

\* C2: a start marker for r2 read while a block for r1 is open emits exactly
\* one record for the r1 block (r1, r1's start timestamp, the lines buffered
\* so far) and opens a block for r2 holding the new start line alone; START
\* R1, START R2, END R2 yields the records R1 then R2.
C2_StartPreemptsOpenBlock == [][C2_StartStep]_vars /\ []C2_Example

C2_Witness ==
    /\ pc = "read"
    /\ KindsOf(consumed) = <<KStart(1), KStart(2), KEnd(2)>>
    /\ Len(RecsOf(gzi)) = 2
    /\ RecsOf(gzi)[1].requestId = 1

\* C3, one step, for an end marker read while a block is open (a line that
\* is also a start marker is taken by line 62 and never reaches line 69)
C3_EndStep ==
    (IsReadStep /\ ~IsStart(LineRead) /\ IsKnown(LineRead.me) /\ IsKnown(current_id)) =>
        IF LineRead.me = current_id
        THEN /\ Len(records') = Len(records) + 1
             /\ SubSeq(records', 1, Len(records)) = records
             /\ Last(records').requestId = Val(current_id)
             /\ Last(records').requestId = Val(LineRead.me)
             /\ Last(records').requestId = Val(Last(records').text[1].ms)
             /\ Last(records').text = Append(buffer_lines, LineRead)
             /\ current_id' = None /\ buffer_lines' = <<>>
        ELSE /\ records' = records
             /\ buffer_lines' = Append(buffer_lines, LineRead)
             /\ current_id' = current_id /\ start_ts' = start_ts

\* C3: an end marker read while a block is open closes it only when the two
\* identifiers are equal: then the line is appended, one record is emitted
\* whose requestId is the identifier of the start marker and of the end
\* marker, and the state is IDLE; otherwise the line is buffered as an
\* ordinary line, no record is emitted and the block stays open.
C3_EndClosesOnlyItsOwnBlock == [][C3_EndStep]_vars

C3_Witness ==
    /\ pc = "read"
    /\ KindsOf(consumed) = <<KStart(1), KEnd(2), KEnd(1)>>
    /\ Len(RecsOf(gzi)) = 1
    /\ RecsOf(gzi)[1].text = consumed
    /\ current_id = None

\* C4, one step: the end of a source
C4_EofStep ==
    IsEofStep =>
        IF IsKnown(current_id)
        THEN records' = Append(records,
                          [requestId |-> Val(consumed[OpenStartPos].ms),
                           file |-> gzi,
                           start_ts |-> StartTsOf(consumed[OpenStartPos]),
                           text |-> SubSeq(consumed, OpenStartPos, Len(consumed)),
                           amount |-> FirstMatch(SubSeq(consumed, OpenStartPos, Len(consumed)))])
        ELSE records' = records

\* C4: at the end of a source with a block open exactly one final record is
\* emitted, with the block's identifier, its start timestamp and every line
\* read since its start marker; at the end of a source in IDLE nothing is
\* emitted.
C4_ExhaustedSourceFlushesOpenBlock == [][C4_EofStep]_vars

C4_Witness ==
    /\ outcome = "eof"
    /\ KindsOf(consumed) = <<KStart(1), KEnd(1), KStart(2), KOther(Some(5))>>
    /\ Len(RecsOf(gzi - 1)) = 2
    /\ RecsOf(gzi - 1)[2].text = SubSeq(consumed, 3, 4)

\* C5.  The blocks of a line sequence L, stated on L alone: every start
\* marker at a opens a block, which ends at the first of: its own end
\* marker, the line before the next start marker, the end of the source.
MatchingEnd(L, a, e) == e > a /\ ~IsStart(L[e]) /\ L[e].me = L[a].ms
NoClose(L, a, b) == \A j \in a+1..b : ~IsStart(L[j]) /\ ~MatchingEnd(L, a, j)
BlockSpan(L, a, b, finished) ==
    /\ IsStart(L[a])
    /\ \/ MatchingEnd(L, a, b) /\ NoClose(L, a, b - 1)
       \/ b < Len(L) /\ IsStart(L[b + 1]) /\ NoClose(L, a, b)
       \/ finished /\ b = Len(L) /\ NoClose(L, a, b)
Spans(L, finished) ==
    {p \in (1..Len(L)) \X (1..Len(L)) : p[1] <= p[2] /\ BlockSpan(L, p[1], p[2], finished)}
LinesOfRec(r) == {r.text[i] : i \in 1..Len(r.text)}

\* C5 for the records of source f, whose lines read so far are L
C5_For(f, L, finished) ==
    LET R == RecsOf(f)
        S == Spans(L, finished)
    IN  /\ Len(R) = Cardinality(S)
        /\ \A i \in 1..Len(R) : \E p \in S :
              /\ Cardinality({q \in S : q[1] < p[1]}) = i - 1
              /\ R[i].text = SubSeq(L, p[1], p[2])
              /\ R[i].requestId = Val(L[p[1]].ms)
        /\ \A i, j \in 1..Len(R) : i # j => LinesOfRec(R[i]) \cap LinesOfRec(R[j]) = {}
        /\ \A n \in 1..Len(L) :
              (\A p \in S : n < p[1] \/ n > p[2]) =>
                  \A i \in 1..Len(R) : L[n] \notin LinesOfRec(R[i])

\* C5: the records of a source are, in order, exactly the blocks of its
\* lines, each record's buffer the contiguous run from its own start marker
\* to its closing point; no line is in two records, and a line outside
\* every block (read while no block is open) is in no record.
C5_RecordsAreTheBlocks ==
    /\ outcome = "reading" => C5_For(gzi, consumed, FALSE)
    /\ outcome = "eof" => C5_For(gzi - 1, consumed, TRUE)

C5_Witness ==
    /\ outcome = "eof"
    /\ KindsOf(consumed) = <<KStart(1), KEnd(1), KStart(2), KEnd(2)>>
    /\ Len(RecsOf(gzi - 1)) = 2
    /\ RecsOf(gzi - 1)[1].text = SubSeq(consumed, 1, 2)
    /\ RecsOf(gzi - 1)[2].text = SubSeq(consumed, 3, 4)

\* =================================================== claims about analyze
Returned == out.err = "none"
Rows == 1..Len(out.df)
Row(p) == out.df[p]
Unknown(x) == ~IsKnown(x)

\* x is before y in the order (ts, requestId) ascending, unknown timestamps
\* last; rows equal in both keep the order of the collection
ChronoBefore(x, y) ==
    \/ IsKnown(x.ts) /\ IsKnown(y.ts) /\ Val(x.ts) < Val(y.ts)
    \/ IsKnown(x.ts) /\ Unknown(y.ts)
    \/ x.ts = y.ts /\ x.requestId < y.requestId
    \/ x.ts = y.ts /\ x.requestId = y.requestId /\ x.idx < y.idx
InGroupOf(p, q) ==
    /\ IsKnown(Row(p).userId) /\ IsKnown(Row(p).walletId)
    /\ Row(q).userId = Row(p).userId /\ Row(q).walletId = Row(p).walletId
\* q is the immediate successor of p in p's (userId, walletId) group
Successor(p, q) ==
    /\ q # p /\ InGroupOf(p, q)
    /\ ChronoBefore(Row(p), Row(q))
    /\ \A z \in Rows :
          ~(z # p /\ z # q /\ InGroupOf(p, z)
            /\ ChronoBefore(Row(p), Row(z)) /\ ChronoBefore(Row(z), Row(q)))
Differ(a, b) == IsKnown(a) /\ IsKnown(b) /\ Abs(Val(a) - Val(b)) > EPS

\* C6 (as claimed): analyze returns its two tables whatever fields the
\* records lack, and for the empty collection.
C6_AnalyzeNeverFails == out.err \in {"pending", "none"}

\* C7 (as claimed): last_balance of a user is the newBalance of a record of
\* that user, among those with a known newBalance and whatever the wallet,
\* that none of them with a known timestamp is later than; final_overdraft
\* is last_balance < 0.  (A record whose own timestamp is unknown is taken
\* to be later than none and earlier than none.)
C7_LastBalanceIsChronologicallyLast ==
    Returned => \A u \in DOMAIN out.per_user :
        LET K == {q \in Rows : Row(q).userId = Some(u) /\ IsKnown(Row(q).newBalance)}
            s == out.per_user[u]
        IN  /\ K = {} => Unknown(s.last_balance)
            /\ K # {} => \E q \in K :
                  /\ s.last_balance = Row(q).newBalance
                  /\ \A z \in K :
                        ~(IsKnown(Row(q).ts) /\ IsKnown(Row(z).ts)
                          /\ Val(Row(q).ts) < Val(Row(z).ts))
            /\ s.final_overdraft = Lt0(s.last_balance)

\* C8: no flag is true when an input of its definition is unknown.
C8_UnknownInputsRaiseNoFlag ==
    Returned => \A p \in Rows :
        LET r == Row(p) IN
        /\ (Unknown(r.oldBalance) \/ Unknown(r.newBalance) \/ Unknown(r.amount))
              => ~r.mismatch
        /\ Unknown(r.newBalance) => ~r.overdraft_after
        /\ (Unknown(r.newBalance) \/ Unknown(r.userId) \/ Unknown(r.walletId))
              => ~r.flow_break
        /\ \A q \in Rows : (Successor(p, q) /\ Unknown(Row(q).oldBalance))
              => ~r.flow_break
        /\ (Unknown(r.delta) \/ Unknown(r.oldBalance) \/ Unknown(r.newBalance)
            \/ Unknown(r.userId)) => ~r.delta_anomaly

\* in a table of two users, a row whose amount is unknown has no mismatch
\* although its delta is known and an outlier of its user
C8_Witness ==
    /\ Returned
    /\ Cardinality(DOMAIN out.per_user) = 2
    /\ \E p \in Rows :
          /\ Unknown(Row(p).amount) /\ IsKnown(Row(p).delta)
          /\ ~Row(p).mismatch /\ Row(p).delta_anomaly

\* C9: with userId and walletId known, flow_break is true exactly when the
\* row has an immediate successor in its group in the order (ts, requestId),
\* unknown timestamps last, and its newBalance and the successor's
\* oldBalance are known and differ by more than 1e-6; without userId or
\* walletId it is false.
C9_FlowBreakIsSuccessorMismatch ==
    Returned => \A p \in Rows :
        IF IsKnown(Row(p).userId) /\ IsKnown(Row(p).walletId)
        THEN Row(p).flow_break <=>
                \E q \in Rows : /\ Successor(p, q)
                                /\ Differ(Row(p).newBalance, Row(q).oldBalance)
        ELSE ~Row(p).flow_break

\* in a table of two users, a group of two rows given in the reverse of
\* their time order, the earlier one flagged
C9_Witness ==
    /\ Returned
    /\ Cardinality(DOMAIN out.per_user) = 2
    /\ \E p, q \in Rows :
          /\ Successor(p, q)
          /\ Row(p).idx > Row(q).idx
          /\ Row(p).flow_break
          /\ ~Row(q).flow_break

\* C10 (as claimed): overdraft_cross is true exactly when oldBalance is known
\* and >= 0 and newBalance is known and < 0.
C10_CrossNeedsKnownOldBalance ==
    Returned => \A p \in Rows :
        Row(p).overdraft_cross <=>
            /\ IsKnown(Row(p).oldBalance) /\ Val(Row(p).oldBalance) >= 0
            /\ IsKnown(Row(p).newBalance) /\ Val(Row(p).newBalance) < 0

====
